---- MODULE Spec2Model ----
(***************************************************************************)
(* Model of ui/app.py: the Streamlit console that starts the pipeline's    *)
(* services through Docker Compose and keeps their start outcome and logs  *)
(* in the session's status store.                                          *)
(*                                                                         *)
(* Text is modelled as a sequence of tokens.  A token is either a          *)
(* whitespace character ("\n", " ") or an indivisible piece of text (a     *)
(* word of process output, an argv element, a literal of the program).     *)
(* str.strip() and str.join() are computed on these sequences.             *)
(***************************************************************************)
EXTENDS Integers, Sequences, FiniteSets, TLC

(***************************************************************************)
(* Bounds                                                                  *)
(***************************************************************************)
\* longest text a child process writes on one stream (direct-call checks)
MaxLen == 2
\* number of "Start <stage>" clicks explored in one session
MaxClicks == 2

(***************************************************************************)
(* Text helpers (Python str semantics on token sequences)                  *)
(***************************************************************************)
Whitespace == {"\n", " "}

RECURSIVE lstrip(_)
lstrip(t) ==
    IF t # <<>> /\ Head(t) \in Whitespace THEN lstrip(Tail(t)) ELSE t

RECURSIVE rstrip(_)
rstrip(t) ==
    IF t # <<>> /\ t[Len(t)] \in Whitespace
    THEN rstrip(SubSeq(t, 1, Len(t) - 1))
    ELSE t

\* str.strip()
strip(t) == rstrip(lstrip(t))

RECURSIVE join(_, _)
\* sep.join(parts) for a list of texts
join(sep, parts) ==
    IF parts = <<>> THEN <<>>
    ELSE IF Len(parts) = 1 THEN parts[1]
    ELSE parts[1] \o sep \o join(sep, Tail(parts))

\* " ".join(argv) for a list of argv elements
join_words(argv) == join(<<" ">>, [i \in 1..Len(argv) |-> <<argv[i]>>])

\* sub in t
Contains(t, sub) ==
    \E i \in 0..(Len(t) - Len(sub)) : SubSeq(t, i + 1, i + Len(sub)) = sub

\* text.split(sep) for a one-token separator run of two newlines
RECURSIVE split_blank(_, _)
split_blank(t, acc) ==
    IF t = <<>> THEN <<acc>>
    ELSE IF Len(t) >= 2 /\ t[1] = "\n" /\ t[2] = "\n"
         THEN <<acc>> \o split_blank(SubSeq(t, 3, Len(t)), <<>>)
         ELSE split_blank(Tail(t), Append(acc, Head(t)))

BlankLine == <<"\n", "\n">>

\* repr() of a list of str
repr_list(argv) ==
    <<"[">> \o join(<<",", " ">>, [i \in 1..Len(argv) |-> <<"'", argv[i], "'">>])
            \o <<"]">>

(***************************************************************************)
(* Topology                                                                *)
(***************************************************************************)
PIPELINE_STEPS ==
    << [identifier |-> "dataingestion-service", label |-> "Data Ingestion",
        compose_service |-> "dataingestion-service"],
       [identifier |-> "datadeduplication-service", label |-> "Data Deduplication",
        compose_service |-> "datadeduplication-service"],
       [identifier |-> "dataquality-service", label |-> "Data Quality",
        compose_service |-> "dataquality-service"],
       [identifier |-> "datalineage-service", label |-> "Data Lineage",
        compose_service |-> "datalineage-service"] >>

\* the comprehension with the range one too long, wrapping to the first stage
PIPELINE_EDGES_wrap ==
    [index \in 1..Len(PIPELINE_STEPS) |->
        <<PIPELINE_STEPS[index].identifier,
          PIPELINE_STEPS[(index % Len(PIPELINE_STEPS)) + 1].identifier>>]

PIPELINE_EDGES ==
    [index \in 1..(Len(PIPELINE_STEPS) - 1) |->
        <<PIPELINE_STEPS[index].identifier, PIPELINE_STEPS[index + 1].identifier>>]

Identifiers == {PIPELINE_STEPS[i].identifier : i \in 1..Len(PIPELINE_STEPS)}

COMPOSE_FILE == "PROJECT_ROOT/docker-compose.yml"

(***************************************************************************)
(* Outcomes of subprocess.run(command, check=True, capture_output=True)    *)
(***************************************************************************)
Alphabet == {"a", "\n"}

RECURSIVE TextsUpTo(_)
TextsUpTo(n) ==
    IF n = 0 THEN {<<>>}
    ELSE LET shorter == TextsUpTo(n - 1)
         IN  shorter \cup {Append(t, c) : t \in {s \in shorter : Len(s) = n - 1},
                                          c \in Alphabet}

FailureCodes == {1}

\* every way one subprocess.run call can end, its streams drawn from texts
Outcomes(texts) ==
    {[kind |-> "FileNotFoundError", returncode |-> 0, stdout |-> <<>>, stderr |-> <<>>]}
    \cup {[kind |-> "OSError", returncode |-> 0, stdout |-> <<>>, stderr |-> <<>>]}
    \cup {[kind |-> "CalledProcessError", returncode |-> c, stdout |-> <<>>, stderr |-> e] :
            c \in FailureCodes, e \in texts}
    \cup {[kind |-> "completed", returncode |-> 0, stdout |-> o, stderr |-> e] :
            o \in texts, e \in texts}

\* the outcomes of the two command forms of one call.  The second form's
\* outcome is an input only when the first one lets the loop go on to it.
OutcomePairs(texts) ==
    {p \in Outcomes(texts) \X Outcomes(texts) :
        p[1].kind \in {"FileNotFoundError", "CalledProcessError"} \/ p[2] = p[1]}

\* str(exc) of a CalledProcessError
str_exc(command, returncode) ==
    <<"Command '">> \o repr_list(command)
        \o <<"' returned non-zero exit status ", ToString(returncode), ".">>

\* the f-string of the FileNotFoundError handler
not_found(command) ==
    <<"Command not found:", " ">>
        \o join_words(SubSeq(command, 1, IF command[1] # "docker" THEN 1 ELSE 2))

\* the stderr expression of the CalledProcessError handler
exc_text(command, exc) ==
    IF exc.stderr # <<>> THEN strip(exc.stderr) ELSE str_exc(command, exc.returncode)

(***************************************************************************)
(* start_service_via_compose                                               *)
(***************************************************************************)
start_commands(service_name) ==
    << <<"docker", "compose", "up", "-d", service_name>>,
       <<"docker-compose", "up", "-d", service_name>> >>

\* the tuple returned when the success path is reached for `command`
start_success(service_name, command, result) ==
    LET stdout == strip(result.stdout)
        stderr == strip(result.stderr)
        details == << <<"Command executed:">>, join_words(command) >>
                   \o (IF stdout # <<>>
                       THEN << <<"Standard output:", "\n">> \o stdout >> ELSE <<>>)
                   \o (IF stderr # <<>>
                       THEN << <<"Standard error:", "\n">> \o stderr >> ELSE <<>>)
    IN  <<TRUE,
          <<"Service '", service_name, "' started successfully.">>,
          join(BlankLine, details)>>

\* the tuple returned after the loop ran out of command forms
start_failure(service_name, errors) ==
    <<FALSE,
      <<"Failed to start service '", service_name, "'. See details below.">>,
      IF errors # <<>> THEN join(BlankLine, errors) ELSE <<"Unknown error">> >>

\* the loop with the FileNotFoundError handler leaving the loop (break)
RECURSIVE start_loop_break(_, _, _, _)
start_loop_break(service_name, outs, index, errors) ==
    LET commands_to_try == start_commands(service_name)
    IN  IF index > Len(commands_to_try)
        THEN [tried |-> index - 1, errors |-> errors, raised |-> FALSE,
              ret |-> start_failure(service_name, errors)]
        ELSE LET command == commands_to_try[index]
                 result == outs[index]
             IN  CASE result.kind = "FileNotFoundError" ->
                        [tried |-> index, errors |-> Append(errors, not_found(command)),
                         raised |-> FALSE,
                         ret |-> start_failure(service_name,
                                               Append(errors, not_found(command)))]
                   [] result.kind = "CalledProcessError" ->
                        start_loop_break(service_name, outs, index + 1,
                                         Append(errors, exc_text(command, result)))
                   [] result.kind = "OSError" ->
                        [tried |-> index, errors |-> errors, raised |-> TRUE,
                         ret |-> <<>>]
                   [] OTHER ->
                        [tried |-> index, errors |-> errors, raised |-> FALSE,
                         ret |-> start_success(service_name, command, result)]

\* the "for command in commands_to_try" loop from position index on:
\* tried = number of subprocess.run calls made, raised = an exception the
\* loop does not catch left the function (ret is then the empty tuple)
RECURSIVE start_loop(_, _, _, _)
start_loop(service_name, outs, index, errors) ==
    LET commands_to_try == start_commands(service_name)
    IN  IF index > Len(commands_to_try)
        THEN [tried |-> index - 1, errors |-> errors, raised |-> FALSE,
              ret |-> start_failure(service_name, errors)]
        ELSE LET command == commands_to_try[index]
                 result == outs[index]
             IN  CASE result.kind = "FileNotFoundError" ->
                        start_loop(service_name, outs, index + 1,
                                   Append(errors, not_found(command)))
                   [] result.kind = "CalledProcessError" ->
                        start_loop(service_name, outs, index + 1,
                                   Append(errors, exc_text(command, result)))
                   [] result.kind = "OSError" ->
                        [tried |-> index, errors |-> errors, raised |-> TRUE,
                         ret |-> <<>>]
                   [] OTHER ->
                        [tried |-> index, errors |-> errors, raised |-> FALSE,
                         ret |-> start_success(service_name, command, result)]

\* the record of one call: the arguments and environment it saw, the command
\* forms it handed to subprocess.run with their outcomes, and what it returned
CallRecord(fn, service_name, exists, commands, outs, run) ==
    [fn |-> fn, service_name |-> service_name, exists |-> exists,
     attempted |-> SubSeq(commands, 1, run.tried),
     outcomes |-> SubSeq(outs, 1, run.tried),
     errors |-> run.errors, raised |-> run.raised, ret |-> run.ret]

\* the manifest check dropped: the loop runs whether or not the file exists
start_service_via_compose_nocheck(service_name, exists, outs) ==
    CallRecord("start", service_name, exists, start_commands(service_name), outs,
               start_loop(service_name, outs, 1, <<>>))

start_service_via_compose(service_name, exists, outs) ==
    IF ~exists
    THEN CallRecord("start", service_name, exists, start_commands(service_name), outs,
             [tried |-> 0, errors |-> <<>>, raised |-> FALSE,
              ret |-> <<FALSE,
                        <<"Unable to locate docker-compose.yml at ", COMPOSE_FILE, ".">>,
                        <<"Ensure the project is checked out with its Docker configuration.">> >>])
    ELSE CallRecord("start", service_name, exists, start_commands(service_name), outs,
                    start_loop(service_name, outs, 1, <<>>))

(***************************************************************************)
(* fetch_service_logs                                                      *)
(***************************************************************************)
fetch_commands(service_name) ==
    << <<"docker", "compose", "logs", "--tail", "200", service_name>>,
       <<"docker-compose", "logs", "--tail", "200", service_name>> >>

NoLogOutput == <<"No log output was produced.">>

\* the success path with the two streams joined without looking at them
fetch_success_concat(result) ==
    <<TRUE, strip(result.stdout) \o BlankLine \o strip(result.stderr)>>

\* the tuple returned when a log command exits with status zero
fetch_success(result) ==
    LET stdout == strip(result.stdout)
        stderr == strip(result.stderr)
    IN  IF stdout # <<>> /\ stderr # <<>> THEN <<TRUE, stdout \o BlankLine \o stderr>>
        ELSE IF stdout # <<>> THEN <<TRUE, stdout>>
        ELSE IF stderr # <<>> THEN <<TRUE, stderr>>
        ELSE <<TRUE, NoLogOutput>>

\* the tuple returned after the loop ran out of command forms
fetch_failure(errors) ==
    <<FALSE, IF errors # <<>> THEN join(BlankLine, errors) ELSE <<"Unknown error">> >>

\* the loop going on to the next form after a form exited with status zero
RECURSIVE fetch_loop_all(_, _, _, _)
fetch_loop_all(service_name, outs, index, errors) ==
    LET commands_to_try == fetch_commands(service_name)
    IN  IF index > Len(commands_to_try)
        THEN [tried |-> index - 1, errors |-> errors, raised |-> FALSE,
              ret |-> IF outs[index - 1].kind = "completed"
                      THEN fetch_success(outs[index - 1]) ELSE fetch_failure(errors)]
        ELSE LET command == commands_to_try[index]
                 result == outs[index]
             IN  CASE result.kind = "FileNotFoundError" ->
                        fetch_loop_all(service_name, outs, index + 1,
                                       Append(errors, not_found(command)))
                   [] result.kind = "CalledProcessError" ->
                        fetch_loop_all(service_name, outs, index + 1,
                                       Append(errors, exc_text(command, result)))
                   [] result.kind = "OSError" ->
                        [tried |-> index, errors |-> errors, raised |-> TRUE,
                         ret |-> <<>>]
                   [] OTHER ->
                        fetch_loop_all(service_name, outs, index + 1, errors)

RECURSIVE fetch_loop(_, _, _, _)
fetch_loop(service_name, outs, index, errors) ==
    LET commands_to_try == fetch_commands(service_name)
    IN  IF index > Len(commands_to_try)
        THEN [tried |-> index - 1, errors |-> errors, raised |-> FALSE,
              ret |-> fetch_failure(errors)]
        ELSE LET command == commands_to_try[index]
                 result == outs[index]
             IN  CASE result.kind = "FileNotFoundError" ->
                        fetch_loop(service_name, outs, index + 1,
                                   Append(errors, not_found(command)))
                   [] result.kind = "CalledProcessError" ->
                        fetch_loop(service_name, outs, index + 1,
                                   Append(errors, exc_text(command, result)))
                   [] result.kind = "OSError" ->
                        [tried |-> index, errors |-> errors, raised |-> TRUE,
                         ret |-> <<>>]
                   [] OTHER ->
                        [tried |-> index, errors |-> errors, raised |-> FALSE,
                         ret |-> fetch_success(result)]

fetch_service_logs(service_name, exists, outs) ==
    IF ~exists
    THEN CallRecord("logs", service_name, exists, fetch_commands(service_name), outs,
             [tried |-> 0, errors |-> <<>>, raised |-> FALSE,
              ret |-> <<FALSE, <<"docker-compose.yml is missing. Unable to fetch logs.">> >>])
    ELSE CallRecord("logs", service_name, exists, fetch_commands(service_name), outs,
                    fetch_loop(service_name, outs, 1, <<>>))

\* a function that was not called
NoCall ==
    [fn |-> "none", service_name |-> "", exists |-> FALSE, attempted |-> <<>>,
     outcomes |-> <<>>, errors |-> <<>>, raised |-> FALSE, ret |-> <<>>]

(***************************************************************************)
(* State                                                                   *)
(***************************************************************************)
VARIABLES
    status_store,      \* st.session_state["service_status"]: identifier -> entry
    active_log_modal,  \* st.session_state["active_log_modal"]
    composeExists,     \* COMPOSE_FILE.exists(), a fact of the file system
    network,           \* the graph build_network() made in the last script run
    call,              \* the latest call of each of the two compose functions
    attempts,          \* identifier -> what the latest start attempt produced
    clicks,            \* "Start" clicks so far
    args               \* the arguments of a direct call (SpecCalls)

vars == <<status_store, active_log_modal, composeExists, network, call, attempts,
          clicks, args>>

None == "None"

NoArgs == [fn |-> "none"]

\* the assignment keeping the logs the key's earlier entry had
put_keep_logs(d, key, value) ==
    [k \in (DOMAIN d) \cup {key} |->
        IF k = key
        THEN (IF key \in DOMAIN d THEN [value EXCEPT !.logs = d[key].logs] ELSE value)
        ELSE d[k]]

\* the store replaced by a dict holding the one entry
put_alone(d, key, value) ==
    [k \in {key} |-> value]

\* the note of the latest attempt on a stage (not program state)
remember(d, key, value) ==
    [k \in (DOMAIN d) \cup {key} |-> IF k = key THEN value ELSE d[k]]

\* dict assignment d[key] = value
put(d, key, value) ==
    [k \in (DOMAIN d) \cup {key} |-> IF k = key THEN value ELSE d[k]]

(***************************************************************************)
(* render_service_controls: the body of "if section.button(...)"           *)
(***************************************************************************)
StartFailedLogs ==
    <<"Service failed to start. Review the command output for more details.">>

NoLogsAvailable == <<"No logs available.">>

\* the handler fetching logs whatever the start returned
start_then_fetch_always(node, exists_start, exists_logs, start_outs, logs_outs) ==
    LET started == start_service_via_compose(node.compose_service, exists_start,
                                             start_outs)
        success == (~started.raised) /\ started.ret[1]
        fetched == IF ~started.raised
                   THEN fetch_service_logs(node.compose_service, exists_logs, logs_outs)
                   ELSE NoCall
    IN  [start |-> started, logs |-> fetched,
         raised |-> started.raised \/ fetched.raised,
         success |-> success,
         logs_success |-> (~started.raised) /\ (~fetched.raised) /\ fetched.ret[1],
         logs_text |-> IF (~started.raised) /\ (~fetched.raised)
                       THEN fetched.ret[2] ELSE <<>>]

\* the two calls of the handler and the locals they set: success,
\* logs_success and logs; raised = an exception left one of the calls
start_then_fetch(node, exists_start, exists_logs, start_outs, logs_outs) ==
    LET started == start_service_via_compose(node.compose_service, exists_start,
                                             start_outs)
        success == (~started.raised) /\ started.ret[1]
        fetched == IF success
                   THEN fetch_service_logs(node.compose_service, exists_logs, logs_outs)
                   ELSE NoCall
    IN  [start |-> started, logs |-> fetched,
         raised |-> started.raised \/ fetched.raised,
         success |-> success,
         logs_success |-> success /\ (~fetched.raised) /\ fetched.ret[1],
         logs_text |-> IF started.raised \/ fetched.raised THEN <<>>
                       ELSE IF success THEN fetched.ret[2]
                       ELSE StartFailedLogs]

\* the entry written with an empty logs field after a failed start
store_entry_nologs(run) ==
    [success |-> run.success, message |-> run.start.ret[2],
     details |-> run.start.ret[3],
     logs |-> IF run.success THEN run.logs_text ELSE <<>>]

\* the dict written to status_store[node.identifier]
store_entry(run) ==
    [success |-> run.success, message |-> run.start.ret[2],
     details |-> run.start.ret[3],
     logs |-> IF run.logs_success \/ run.logs_text # <<>>
              THEN run.logs_text ELSE NoLogsAvailable]

(***************************************************************************)
(* The rest of a script run                                                *)
(***************************************************************************)
build_network ==
    [nodes |-> [i \in 1..Len(PIPELINE_STEPS) |-> PIPELINE_STEPS[i].identifier],
     edges |-> PIPELINE_EDGES]

\* the selectbox offering every stage, started or not
services_with_logs_all(store) == Identifiers

\* the stages render_log_panel offers in its selectbox
services_with_logs(store) ==
    {id \in Identifiers : id \in DOMAIN store /\ store[id].logs # <<>>}

\* the modal block of render_log_panel when "Close log viewer" is not clicked
render_modal(modal) ==
    IF modal # None /\ modal \notin Identifiers THEN None ELSE modal

(***************************************************************************)
(* Specification of a session: script runs triggered by the widgets        *)
(***************************************************************************)
UITexts == {<<"a">>}

\* the command outcomes a session is explored with: each form is missing,
\* cannot be launched, or runs to exit status zero
UIOutcomePairs ==
    {p \in OutcomePairs(UITexts) :
        p[1].kind # "CalledProcessError" /\ p[2].kind # "CalledProcessError"}

\* what the file system and the log commands answer during the handler: an
\* input only when the start lets the handler go on to fetch_service_logs
LogsInputs(node, exists_start, start_outs) ==
    LET started == start_service_via_compose(node.compose_service, exists_start,
                                             start_outs)
    IN  IF (~started.raised) /\ started.ret[1]
        THEN BOOLEAN \X UIOutcomePairs
        ELSE {<<exists_start, start_outs>>}

Init ==
    /\ status_store = <<>>
    /\ active_log_modal = None
    /\ composeExists \in BOOLEAN
    /\ network = [nodes |-> <<>>, edges |-> <<>>]
    /\ call = [start |-> NoCall, logs |-> NoCall]
    /\ attempts = <<>>
    /\ clicks = 0
    /\ args = NoArgs

\* a script run with the "Start <label>" button of one stage clicked.  The
\* manifest is a file outside the program: what exists() answers inside the two
\* functions is an input of its own, and the file is left as last seen.
StartClicked ==
    /\ clicks < MaxClicks
    /\ composeExists
    /\ \E i \in 1..Len(PIPELINE_STEPS), exists_start \in BOOLEAN,
          start_outs \in UIOutcomePairs :
       \E logs_in \in LogsInputs(PIPELINE_STEPS[i], exists_start, start_outs) :
          LET node == PIPELINE_STEPS[i]
              run == start_then_fetch(node, exists_start, logs_in[1],
                                      start_outs, logs_in[2])
          IN  /\ call' = [start |-> run.start, logs |-> run.logs]
              /\ composeExists' = IF run.logs.fn = "none" THEN exists_start
                                  ELSE logs_in[1]
              /\ attempts' = remember(attempts, node.identifier,
                                 [raised |-> run.start.raised, ret |-> run.start.ret])
              /\ IF run.raised
                 THEN UNCHANGED <<status_store, network, active_log_modal>>
                 ELSE /\ status_store' = put(status_store, node.identifier,
                                             store_entry(run))
                      /\ network' = build_network
                      /\ active_log_modal' = render_modal(active_log_modal)
    /\ clicks' = clicks + 1
    /\ UNCHANGED args

\* a script run with "Open log viewer" clicked for the selected stage
OpenLogViewer ==
    /\ \E selected_identifier \in services_with_logs(status_store) :
          active_log_modal' = render_modal(selected_identifier)
    /\ network' = build_network
    /\ UNCHANGED <<status_store, composeExists, call, attempts, clicks, args>>

\* a script run with "Close log viewer" clicked inside the open modal
CloseLogViewer ==
    /\ render_modal(active_log_modal) # None
    /\ active_log_modal' = None
    /\ network' = build_network
    /\ UNCHANGED <<status_store, composeExists, call, attempts, clicks, args>>

\* the manifest file is removed from, or restored to, the project directory
ManifestChanges ==
    /\ composeExists' = ~composeExists
    /\ UNCHANGED <<status_store, active_log_modal, network, call, attempts, clicks, args>>

Next == StartClicked \/ OpenLogViewer \/ CloseLogViewer \/ ManifestChanges

Spec == Init /\ [][Next]_vars

(***************************************************************************)
(* Specification of direct calls: one call of one of the two functions on  *)
(* arguments and command outcomes drawn from the bounded sets              *)
(***************************************************************************)
Texts == TextsUpTo(MaxLen)

ServiceNames == {PIPELINE_STEPS[i].compose_service : i \in 1..Len(PIPELINE_STEPS)}

InitCalls ==
    /\ status_store = <<>>
    /\ active_log_modal = None
    /\ composeExists \in BOOLEAN
    /\ network = [nodes |-> <<>>, edges |-> <<>>]
    /\ call = [start |-> NoCall, logs |-> NoCall]
    /\ attempts = <<>>
    /\ clicks = 0
    /\ args \in [fn : {"start", "logs"}, service_name : ServiceNames,
                 outs : OutcomePairs(Texts)]

CallStart ==
    /\ args.fn = "start"
    /\ call.start.fn = "none"
    /\ call' = [call EXCEPT !.start =
                    start_service_via_compose(args.service_name, composeExists, args.outs)]
    /\ UNCHANGED <<status_store, active_log_modal, composeExists, network, attempts,
                   clicks, args>>

CallLogs ==
    /\ args.fn = "logs"
    /\ call.logs.fn = "none"
    /\ call' = [call EXCEPT !.logs =
                    fetch_service_logs(args.service_name, composeExists, args.outs)]
    /\ UNCHANGED <<status_store, active_log_modal, composeExists, network, attempts,
                   clicks, args>>

NextCalls == CallStart \/ CallLogs

SpecCalls == InitCalls /\ [][NextCalls]_vars

(***************************************************************************)
(* Properties                                                              *)
(***************************************************************************)
FailedKinds == {"FileNotFoundError", "CalledProcessError"}

\* the call a direct-call behaviour has made, once it has made it
Made == IF args.fn = "start" THEN call.start ELSE call.logs

HasReturned == args.fn # "none" /\ Made.fn # "none"

\* t without its leading and trailing whitespace
Trimmed(t) ==
    LET solid == {i \in 1..Len(t) : t[i] \notin Whitespace}
    IN  IF solid = {} THEN <<>>
        ELSE SubSeq(t, CHOOSE i \in solid : \A j \in solid : i <= j,
                       CHOOSE i \in solid : \A j \in solid : i >= j)

\* C1 (as claimed): a stage whose recorded start outcome is a failure has no
\* log payload in its entry; a non-empty logs field implies success = TRUE.
C1_LogsOnlyAfterSuccess ==
    \A id \in DOMAIN status_store :
        status_store[id].logs # <<>> => status_store[id].success

\* C1 (amended): the logs field of an entry whose start outcome is a failure
\* is the fixed "Service failed to start" text, never text returned by
\* fetch_service_logs; the handler that wrote such an entry made no log call.
C1_FailedStartHasPlaceholderLogs ==
    /\ \A id \in DOMAIN status_store :
          ~status_store[id].success => status_store[id].logs = StartFailedLogs
    /\ \A id \in DOMAIN status_store :
          (/\ call.start.fn = "start"
           /\ call.start.service_name = id
           /\ ~call.start.raised
           /\ ~call.start.ret[1])
          => /\ call.logs = NoCall
             /\ ~status_store[id].success

C1_Witness ==
    \E id \in services_with_logs(status_store) :
        /\ ~status_store[id].success
        /\ status_store[id].logs = StartFailedLogs
        /\ Len(call.start.attempted) = 2

\* C2: in the handler, fetch_service_logs is called for a stage only after
\* start_service_via_compose returned success = TRUE for the same stage in the
\* same handler run; after a failed start no log command form is run.
C2_FetchOnlyAfterSuccessfulStart ==
    /\ call.logs.fn # "none" =>
          /\ call.start.fn = "start"
          /\ ~call.start.raised
          /\ call.start.ret[1]
          /\ call.logs.service_name = call.start.service_name
    /\ (call.start.fn = "start" /\ (call.start.raised \/ ~call.start.ret[1])) =>
          /\ call.logs.fn = "none"
          /\ call.logs.attempted = <<>>

C2_Witness ==
    /\ call.start.fn = "start"
    /\ ~call.start.raised
    /\ call.start.ret[1]
    /\ call.logs.fn = "logs"
    /\ Len(call.logs.attempted) = 2

\* the case of C3: the manifest exists, form A is not found, form B exits zero
C3_Case ==
    /\ HasReturned
    /\ composeExists
    /\ args.outs[1].kind = "FileNotFoundError"
    /\ args.outs[2].kind = "completed"

\* the text of a result: details of a start, the log text of a fetch
ResultText(c) == IF c.fn = "start" THEN c.ret[3] ELSE c.ret[2]

C3_OnlyAFailed ==
    Made.errors = << <<"Command not found:", " ", "docker", " ", "compose">> >>

\* C3 (as claimed): for both functions, when A is not found and B exits zero,
\* the result is a success that reports B as the command used, and the
\* diagnostics mention A's failure only.
C3_FallbackReportsB ==
    C3_Case =>
        /\ ~Made.raised
        /\ Made.ret[1]
        /\ Contains(ResultText(Made), join_words(Made.attempted[2]))
        /\ C3_OnlyAFailed

\* C3 (amended): when A is not found and B exits zero, both functions return
\* success and the diagnostics collected hold A's "Command not found" entry
\* only; start_service_via_compose names B as the command executed, while
\* fetch_service_logs returns nothing but B's trimmed output (or the no-output
\* sentence) and names no command.
C3_FallbackReflectsB ==
    C3_Case =>
        /\ ~Made.raised
        /\ Made.ret[1]
        /\ C3_OnlyAFailed
        /\ Len(Made.attempted) = 2
        /\ Made.fn = "start" =>
              /\ Contains(Made.ret[3],
                          <<"Command executed:">> \o BlankLine
                              \o join_words(Made.attempted[2]))
              /\ ~Contains(Made.ret[3], <<"Command not found:">>)
        /\ Made.fn = "logs" =>
              LET out == Trimmed(args.outs[2].stdout)
                  err == Trimmed(args.outs[2].stderr)
              IN  Made.ret[2] \in {out, err, out \o BlankLine \o err, NoLogOutput}

C3_Witness ==
    /\ C3_Case
    /\ Made.fn = "logs"
    /\ Made.ret[1]
    /\ Made.ret[2] = <<"a">>

\* the case of C4: the manifest exists and both forms fail
C4_Case ==
    /\ HasReturned
    /\ composeExists
    /\ args.outs[1].kind \in FailedKinds
    /\ args.outs[2].kind \in FailedKinds

\* C4: when every form fails, the result is a failure whose details hold one
\* diagnostic per attempted form, in attempt order, each of them present
\* (non-empty) and separated from the other by the blank line.
C4_OneDiagnosticPerForm ==
    C4_Case =>
        LET blocks == split_blank(ResultText(Made), <<>>)
        IN  /\ ~Made.raised
            /\ ~Made.ret[1]
            /\ Len(Made.attempted) = 2
            /\ Len(blocks) = Len(Made.attempted)
            /\ \A i \in 1..Len(blocks) : blocks[i] # <<>>

\* C5: with the manifest absent, either function returns failure and hands
\* no command form to subprocess.run, whatever the commands would have done.
C5_NoManifestNoCommand ==
    (HasReturned /\ ~composeExists) =>
        /\ ~Made.raised
        /\ ~Made.ret[1]
        /\ Made.attempted = <<>>
        /\ Made.outcomes = <<>>
        /\ Made.errors = <<>>

C5_Witness ==
    /\ HasReturned
    /\ ~composeExists
    /\ Made.fn = "start"
    /\ args.outs[1].kind = "completed"
    /\ ~Made.ret[1]

\* C6: the store holds one entry per stage, and it is the outcome (success,
\* message, details) of the latest start attempt on that stage.
C6_EntryIsLatestAttempt ==
    \A id \in DOMAIN attempts :
        /\ ~attempts[id].raised
        /\ id \in DOMAIN status_store
        /\ <<status_store[id].success, status_store[id].message,
             status_store[id].details>> = attempts[id].ret

\* C7: whatever way launching a command form ends, the two functions return
\* a result value; no exception leaves them.
C7_NeverRaises ==
    HasReturned => ~Made.raised

\* C8: the graph the script builds has one edge fewer than stages, its i-th
\* edge joins the i-th stage to the next one, every endpoint is a declared
\* stage, and the identifiers are pairwise distinct (a chain, no branching).
C8_LinearChain ==
    /\ Len(PIPELINE_EDGES) = Len(PIPELINE_STEPS) - 1
    /\ \A i \in 1..Len(PIPELINE_EDGES) :
          /\ i + 1 <= Len(PIPELINE_STEPS)
          /\ PIPELINE_EDGES[i][1] = PIPELINE_STEPS[i].identifier
          /\ PIPELINE_EDGES[i][2] = PIPELINE_STEPS[i + 1].identifier
          /\ PIPELINE_EDGES[i][1] \in Identifiers
          /\ PIPELINE_EDGES[i][2] \in Identifiers
    /\ \A i, j \in 1..Len(PIPELINE_STEPS) :
          PIPELINE_STEPS[i].identifier = PIPELINE_STEPS[j].identifier => i = j
    /\ \A i, j \in 1..Len(PIPELINE_EDGES) :
          (PIPELINE_EDGES[i][1] = PIPELINE_EDGES[j][1]
             \/ PIPELINE_EDGES[i][2] = PIPELINE_EDGES[j][2]) => i = j
    /\ network.nodes # <<>> =>
          /\ network.edges = PIPELINE_EDGES
          /\ Len(network.edges) = Len(network.nodes) - 1
          /\ \A i \in 1..Len(network.edges) :
                network.edges[i] = <<network.nodes[i], network.nodes[i + 1]>>

C8_Witness ==
    /\ Len(network.nodes) = 4
    /\ Len(network.edges) = 3
    /\ network.edges[3] = <<"dataquality-service", "datalineage-service">>

\* the form of a fetch_service_logs call that exited with status zero
C9_Completed ==
    IF args.outs[1].kind = "completed" THEN args.outs[1] ELSE args.outs[2]

\* the case of C9: a log command form exited with status zero
C9_Case ==
    /\ HasReturned
    /\ args.fn = "logs"
    /\ composeExists
    /\ \/ args.outs[1].kind = "completed"
       \/ args.outs[1].kind \in FailedKinds /\ args.outs[2].kind = "completed"

\* the text C9 describes, for the two streams out and err
C9_Text(out, err) ==
    IF out # <<>> /\ err # <<>> THEN out \o BlankLine \o err
    ELSE IF out # <<>> THEN out
    ELSE IF err # <<>> THEN err
    ELSE NoLogOutput

\* C9 (as claimed): on exit status zero the text is stdout, a blank line and
\* stderr when both are non-empty, the non-empty one when one is, and the
\* no-output sentence when both are empty.
C9_TextOfRawStreams ==
    C9_Case =>
        /\ Made.ret[1]
        /\ Made.ret[2] = C9_Text(C9_Completed.stdout, C9_Completed.stderr)
        /\ Made.ret[2] # <<>>

\* C9 (amended): the same, with stdout and stderr each taken without their
\* leading and trailing whitespace (a stream of whitespace only counts as
\* empty); the text returned is never empty.
C9_TextOfTrimmedStreams ==
    C9_Case =>
        /\ ~Made.raised
        /\ Made.ret[1]
        /\ Made.ret[2] = C9_Text(Trimmed(C9_Completed.stdout),
                                 Trimmed(C9_Completed.stderr))
        /\ Made.ret[2] # <<>>

C9_Witness ==
    /\ C9_Case
    /\ C9_Completed.stdout = <<"a", "\n">>
    /\ C9_Completed.stderr = <<"\n", "a">>
    /\ Made.ret[2] = <<"a", "\n", "\n", "a">>

\* C10: the forms are run in list order, the "docker compose" form first; a
\* form is run only if every earlier one failed, and once a form exits with
\* status zero the function returns success without running a later form.
C10_InOrderUntilSuccess ==
    (HasReturned /\ composeExists) =>
        LET commands == IF Made.fn = "start" THEN start_commands(args.service_name)
                        ELSE fetch_commands(args.service_name)
            n == Len(Made.attempted)
        IN  /\ n \in 1..2
            /\ Made.attempted = SubSeq(commands, 1, n)
            /\ Made.attempted[1][1] = "docker" /\ Made.attempted[1][2] = "compose"
            /\ n = 2 => Made.attempted[2][1] = "docker-compose"
            /\ Made.outcomes = SubSeq(args.outs, 1, n)
            /\ \A i \in 2..n : args.outs[i - 1].kind \in FailedKinds
            /\ n = 1 => args.outs[1].kind \notin FailedKinds
            /\ \A i \in 1..n :
                  args.outs[i].kind = "completed" =>
                      i = n /\ ~Made.raised /\ Made.ret[1]

C10_Witness ==
    /\ HasReturned
    /\ composeExists
    /\ Made.fn = "logs"
    /\ args.outs[1].kind = "completed"
    /\ Len(Made.attempted) = 1
    /\ Made.ret[1]

\* C11: a form that runs and exits non-zero leaves a non-empty diagnostic:
\* its standard-error text, or the generic message when that text is empty
\* or whitespace only; the next form is then attempted.
C11_NonZeroExitLeavesDiagnostic ==
    (HasReturned /\ composeExists) =>
        \A i \in 1..Len(Made.attempted) :
            args.outs[i].kind = "CalledProcessError" =>
                /\ i <= Len(Made.errors)
                /\ Made.errors[i] # <<>>
                /\ Trimmed(args.outs[i].stderr) # <<>> =>
                      Made.errors[i] = Trimmed(args.outs[i].stderr)
                /\ Trimmed(args.outs[i].stderr) = <<>> =>
                      Made.errors[i] = str_exc(Made.attempted[i],
                                               args.outs[i].returncode)
                /\ i < 2 => Len(Made.attempted) = i + 1

\* the logs text the handler run recorded in call computed
LogsOfRun(c) ==
    IF c.logs.fn = "logs" THEN c.logs.ret[2] ELSE StartFailedLogs

C13_LogFailureKeepsStartSuccess ==
    call.logs.fn = "logs" =>
        LET c == call.logs
            zero == \E i \in 1..Len(c.outcomes) : c.outcomes[i].kind = "completed"
            id == call.start.service_name
        IN  /\ ~c.raised
            /\ c.ret[1] <=> (c.exists /\ zero)
            /\ (c.exists /\ ~zero) => c.ret = <<FALSE, join(BlankLine, c.errors)>>
            /\ (call.start.fn = "start" /\ ~c.ret[1]) =>
                  /\ id \in DOMAIN status_store
                  /\ status_store[id].success
                  /\ status_store[id].message = call.start.ret[2]
                  /\ status_store[id].details = call.start.ret[3]
                  /\ status_store[id].logs = c.ret[2]

\* C14: one call runs at most two command forms and returns a result; a
\* handler run therefore runs at most four and ends having written the one
\* entry of its stage.
C14_BoundedWorkOneEntry ==
    call.start.fn = "start" =>
        LET id == call.start.service_name
        IN  /\ Len(call.start.attempted) <= 2
            /\ Len(call.logs.attempted) <= 2
            /\ Len(call.start.attempted) + Len(call.logs.attempted) <= 4
            /\ ~call.start.raised
            /\ ~call.logs.raised
            /\ id \in DOMAIN status_store
            /\ <<status_store[id].success, status_store[id].message,
                 status_store[id].details>> = call.start.ret
            /\ status_store[id].logs = LogsOfRun(call)

\* C15: a start action for stage X changes no entry but X's and leaves the
\* selected log view as it was; no action removes an entry, and only start
\* actions change the store.
C15_StartTouchesOneEntry ==
    [][/\ \A id \in DOMAIN status_store : id \in DOMAIN status_store'
       /\ clicks' # clicks =>
             /\ \A id \in DOMAIN status_store' :
                   id # call'.start.service_name =>
                       /\ id \in DOMAIN status_store
                       /\ status_store'[id] = status_store[id]
             /\ active_log_modal' = active_log_modal
       /\ clicks' = clicks => status_store' = status_store]_vars

\* two stages started, the log viewer open on the one started first
C15_Witness ==
    /\ clicks = 2
    /\ DOMAIN status_store = {"dataingestion-service", "datalineage-service"}
    /\ call.start.service_name = "datalineage-service"
    /\ ~call.start.raised
    /\ active_log_modal = "dataingestion-service"

\* the selected log view is absent or names one declared stage whose entry
\* has log content
C16_Selected ==
    \/ active_log_modal = None
    \/ /\ Cardinality({i \in 1..Len(PIPELINE_STEPS) :
                          PIPELINE_STEPS[i].identifier = active_log_modal}) = 1
       /\ active_log_modal \in DOMAIN status_store
       /\ status_store[active_log_modal].logs # <<>>

\* the selected log view changes only by "Open log viewer" on an offered
\* stage or by "Close log viewer"
C16_Step ==
    active_log_modal' # active_log_modal =>
        /\ status_store' = status_store
        /\ clicks' = clicks
        /\ \/ /\ active_log_modal' # None
              /\ active_log_modal' \in services_with_logs(status_store)
           \/ /\ active_log_modal' = None
              /\ active_log_modal # None

\* C16: in every state the log-viewer reference is None or the identifier of
\* one declared stage that has an entry with log content; it is set only by
\* "Open log viewer" for an offered stage, cleared by "Close log viewer", and
\* a reference to an unknown stage is reset to None.
C16_SelectedLogView ==
    /\ [](C16_Selected /\ render_modal("unknown-service") = None
                       /\ render_modal(active_log_modal) = active_log_modal)
    /\ [][C16_Step]_vars

C16_Witness ==
    /\ active_log_modal = "datadeduplication-service"
    /\ "datadeduplication-service" \in DOMAIN status_store
    /\ status_store["datadeduplication-service"].success
    /\ status_store["datadeduplication-service"].logs = <<"a", "\n", "\n", "a">>

====
